---- MODULE Spec2Model ----
(***************************************************************************)
(* ProductImageUploader (React component): a file input with a local       *)
(* preview, an upload button that POSTs the selected file, and an          *)
(* imperative handle enabled()/disabled().                                 *)
(*                                                                         *)
(* JavaScript runs each handler to completion up to its next await, so one *)
(* action of the model is one such block: the change handler, the part of  *)
(* handleUpload before `await fetch`, the continuation after the fetch     *)
(* promise settles, and the continuation after `res.text()` settles.  A    *)
(* block is written as the sequence of statements the code executes; Run   *)
(* applies them in order and Trace keeps every intermediate state.         *)
(***************************************************************************)
EXTENDS Integers, Sequences, FiniteSets, TLC

VARIABLES
    isDisabled,   \* useState(false), line 25
    loading,      \* useState(false), line 26
    success,      \* useState<string | null>(null), line 27
    error,        \* useState<string | null>(null), line 28
    previewUrl,   \* useState<string | null>(null), line 29
    inputFile,    \* inputRef.current.files[0]: the selection held by the native input
    csrfMeta,     \* content of <meta name="csrf-token"> in the hosting page
    productId,    \* productModel.id
    net,          \* fetch calls whose handleUpload invocation has not finished
    issued,       \* number of fetch calls made so far
    objectUrls,   \* object URLs created by URL.createObjectURL and not revoked
    ev,           \* the block that ran last, with its inputs
    trace         \* the states the last block went through, statement by statement

vars == <<isDisabled, loading, success, error, previewUrl, inputFile, csrfMeta,
          productId, net, issued, objectUrls, ev, trace>>

----------------------------------------------------------------------------
(* Bounds *)

MaxRequests == 2
MaxUrls == 2

----------------------------------------------------------------------------
(* Values *)

\* JavaScript null / undefined; no string the model draws equals it.
Null == "<null>"
NoFile == "<no file>"
NoMeta == "<no meta>"

Files == {"photo.png", "logo.jpg"}
ProductIds == {42, 7}
CsrfMetas == {NoMeta, "", "tok"}
Statuses == {200, 201, 299, 300, 403, 500}
StatusTexts == {"", "Forbidden"}
Bodies == {"", "bad image"}
\* what a rejected fetch promise can carry: undefined, or an object with a message
Thrown == {[defined |-> FALSE, message |-> Null],
           [defined |-> TRUE, message |-> Null],
           [defined |-> TRUE, message |-> ""],
           [defined |-> TRUE, message |-> "Failed to fetch"]}

MsgNoFile == "Selecione um arquivo para envio."
MsgSuccess == "Upload realizado com sucesso."
MsgServer == "Erro no servidor"
MsgSend == "Erro ao enviar imagem."

\* a || b on string | null | undefined operands
Falsy(a) == a \in {Null, ""}
Or(a, b) == IF Falsy(a) THEN b ELSE a

\* err?.message
MessageOf(err) == IF err.defined THEN err.message ELSE Null

\* new Error(m).message
NewError(m) == [defined |-> TRUE, message |-> m]

\* variant: only status 200 counts as success
Ok_Only200(status) == status = 200

\* res.ok
Ok(status) == status >= 200 /\ status <= 299

\* variant: the `|| ""` fallback is missing
getCsrfToken_Raw(meta) == meta

\* el?.content || ""
getCsrfToken(meta) == IF meta = NoMeta THEN "" ELSE Or(meta, "")

\* `/api/products/${productModel.id}/image`
Endpoint(id) == "/api/products/" \o ToString(id) \o "/image"

\* URL.createObjectURL returns a URL it has not returned before
createObjectURL(urls) == "blob:" \o ToString(Cardinality(urls) + 1)

----------------------------------------------------------------------------
(* Statements and their effect on the state *)

State == [isDisabled |-> isDisabled, loading |-> loading, success |-> success,
          error |-> error, previewUrl |-> previewUrl, net |-> net,
          issued |-> issued, objectUrls |-> objectUrls]

setIsDisabled(v) == [op |-> "setIsDisabled", v |-> v]
setLoading(v) == [op |-> "setLoading", v |-> v]
setSuccess(v) == [op |-> "setSuccess", v |-> v]
setError(v) == [op |-> "setError", v |-> v]
setPreviewUrl(v) == [op |-> "setPreviewUrl", v |-> v]
newObjectUrl(v) == [op |-> "createObjectURL", v |-> v]
fetch(req) == [op |-> "fetch", v |-> req]
awaitText(id, statusText) == [op |-> "awaitText", v |-> [id |-> id, statusText |-> statusText]]
finish(id) == [op |-> "finish", v |-> id]

Apply(s, st) ==
    CASE st.op = "setIsDisabled" -> [s EXCEPT !.isDisabled = st.v]
      [] st.op = "setLoading" -> [s EXCEPT !.loading = st.v]
      [] st.op = "setSuccess" -> [s EXCEPT !.success = st.v]
      [] st.op = "setError" -> [s EXCEPT !.error = st.v]
      [] st.op = "setPreviewUrl" -> [s EXCEPT !.previewUrl = st.v]
      [] st.op = "createObjectURL" -> [s EXCEPT !.objectUrls = @ \cup {st.v}]
      [] st.op = "fetch" -> [s EXCEPT !.net = @ \cup {st.v}, !.issued = @ + 1]
      [] st.op = "awaitText" ->
            [s EXCEPT !.net = {IF r.id = st.v.id
                               THEN [r EXCEPT !.stage = "text", !.statusText = st.v.statusText]
                               ELSE r : r \in @}]
      [] st.op = "finish" -> [s EXCEPT !.net = {r \in @ : r.id # st.v}]

RECURSIVE Run(_, _)
Run(s, sts) == IF sts = <<>> THEN s ELSE Run(Apply(s, Head(sts)), Tail(sts))

\* the state before the block and after each of its statements
RECURSIVE Trace(_, _)
Trace(s, sts) == IF sts = <<>> THEN <<s>> ELSE <<s>> \o Trace(Apply(s, Head(sts)), Tail(sts))

----------------------------------------------------------------------------
(* The handlers, as the statements they execute *)

\* variant: enabling also dismisses the error alert
enabled_Reset == <<setIsDisabled(FALSE), setError(Null)>>

\* variant: the handle toggles the flag
enabled_Toggle == <<setIsDisabled(~isDisabled)>>

enabled == <<setIsDisabled(FALSE)>>

\* variant: disabling also dismisses the error alert
disabled_Reset == <<setIsDisabled(TRUE), setError(Null)>>

disabled == <<setIsDisabled(TRUE)>>

\* variant: the else branch (setPreviewUrl(null)) is missing
handleFileChange_NoClear(s, file) ==
    <<setSuccess(Null), setError(Null)>> \o
    IF file # NoFile
    THEN LET url == createObjectURL(s.objectUrls)
         IN <<newObjectUrl(url), setPreviewUrl(url)>>
    ELSE <<>>

\* variant: setError(null) at the top of the change handler is missing
handleFileChange_KeepError(s, file) ==
    <<setSuccess(Null)>> \o
    IF file # NoFile
    THEN LET url == createObjectURL(s.objectUrls)
         IN <<newObjectUrl(url), setPreviewUrl(url)>>
    ELSE <<setPreviewUrl(Null)>>

handleFileChange(s, file) ==
    <<setSuccess(Null), setError(Null)>> \o
    IF file # NoFile
    THEN LET url == createObjectURL(s.objectUrls)
         IN <<newObjectUrl(url), setPreviewUrl(url)>>
    ELSE <<setPreviewUrl(Null)>>

Request(id, file, pid, meta) ==
    [id |-> id, method |-> "POST", url |-> Endpoint(pid), field |-> "image",
     file |-> file, csrf |-> getCsrfToken(meta), stage |-> "fetch", statusText |-> Null]

\* variant: setLoading(true) moved above the file check
handleUploadStart_LoadingFirst(s, file, pid, meta) ==
    <<setSuccess(Null), setError(Null), setLoading(TRUE)>> \o
    IF file = NoFile
    THEN <<setError(MsgNoFile)>>
    ELSE <<fetch(Request(s.issued + 1, file, pid, meta))>>

\* variant: setSuccess(null) at the top of handleUpload is missing
handleUploadStart_KeepSuccess(s, file, pid, meta) ==
    <<setError(Null)>> \o
    IF file = NoFile
    THEN <<setError(MsgNoFile)>>
    ELSE <<setLoading(TRUE), fetch(Request(s.issued + 1, file, pid, meta))>>

\* variant: setError(null) at the top of handleUpload is missing
handleUploadStart_KeepError(s, file, pid, meta) ==
    <<setSuccess(Null)>> \o
    IF file = NoFile
    THEN <<setError(MsgNoFile)>>
    ELSE <<setLoading(TRUE), fetch(Request(s.issued + 1, file, pid, meta))>>

\* handleUpload up to `await fetch(...)`
handleUploadStart(s, file, pid, meta) ==
    <<setSuccess(Null), setError(Null)>> \o
    IF file = NoFile
    THEN <<setError(MsgNoFile)>>
    ELSE <<setLoading(TRUE), fetch(Request(s.issued + 1, file, pid, meta))>>

\* variant: no fallback message in the catch block
catchBlock_NoFallback(err) == <<setError(MessageOf(err))>>

\* catch (err: any) { setError(err?.message || "Erro ao enviar imagem.") }
catchBlock(err) == <<setError(Or(MessageOf(err), MsgSend))>>

\* variant: the finally block also re-enables the widget
finallyBlock_Enable(id) == <<setLoading(FALSE), setIsDisabled(FALSE), finish(id)>>

\* finally { setLoading(false) }, after which the invocation is over
finallyBlock(id) == <<setLoading(FALSE), finish(id)>>

\* what the try body did since the last await: statements, then possibly a throw
Completed(sts) == [sts |-> sts, thrown |-> FALSE, err |-> [defined |-> FALSE, message |-> Null]]

Threw(sts, err) == [sts |-> sts, thrown |-> TRUE, err |-> err]

\* try { body } catch { ... } finally { ... }: the statements run, and whether
\* the exception leaves handleUpload
tryCatchFinally(body, id) ==
    IF body.thrown
    THEN [sts |-> body.sts \o catchBlock(body.err) \o finallyBlock(id), escaped |-> FALSE]
    ELSE [sts |-> body.sts \o finallyBlock(id), escaped |-> FALSE]

\* variant: loading is cleared before the error body is read
handleUploadResolved_EarlyClear(id, status, statusText) ==
    IF ~Ok(status)
    THEN [sts |-> <<setLoading(FALSE), awaitText(id, statusText)>>, escaped |-> FALSE]
    ELSE tryCatchFinally(Completed(<<setSuccess(MsgSuccess), setError(Null)>>), id)

\* handleUpload after the fetch promise resolved with a response
handleUploadResolved(id, status, statusText) ==
    IF ~Ok(status)
    THEN [sts |-> <<awaitText(id, statusText)>>, escaped |-> FALSE]
    ELSE tryCatchFinally(Completed(<<setSuccess(MsgSuccess), setError(Null)>>), id)

\* res.text().catch(() => null): the body, or null when it cannot be read
textOrNull(readable, body) == IF readable THEN body ELSE Null

\* variant: the status text is preferred to the body
handleUploadText_StatusFirst(id, text, statusText) ==
    tryCatchFinally(Threw(<<>>, NewError(Or(Or(statusText, text), MsgServer))), id)

\* handleUpload after `await res.text().catch(...)`: throw new Error(...)
handleUploadText(id, text, statusText) ==
    tryCatchFinally(Threw(<<>>, NewError(Or(Or(text, statusText), MsgServer))), id)

\* variant: setLoading(false) at the end of the try body instead of in finally
handleUploadRejected_NoFinally(id, err) ==
    [sts |-> catchBlock(err) \o <<finish(id)>>, escaped |-> FALSE]

\* handleUpload after the fetch promise rejected: the await throws
handleUploadRejected(id, err) == tryCatchFinally(Threw(<<>>, err), id)

\* variants: one of the two flags is missing from a disabled attribute
inputDisabled_OnlyLoading == loading

inputDisabled_Never == FALSE

inputDisabled_OnlyFlag == isDisabled

\* disabled={isDisabled || loading} on the input
inputDisabled == isDisabled \/ loading

buttonDisabled_OnlyFlag == isDisabled

\* disabled={isDisabled || loading} on the button
buttonDisabled == isDisabled \/ loading

----------------------------------------------------------------------------
(* Actions *)

Event(op, file, status, statusText, text, err, escaped) ==
    [op |-> op, file |-> file, status |-> status, statusText |-> statusText,
     text |-> text, err |-> err, escaped |-> escaped]

NoErr == [defined |-> FALSE, message |-> Null]

Commit(sts) ==
    LET t == Run(State, sts)
    IN /\ isDisabled' = t.isDisabled
       /\ loading' = t.loading
       /\ success' = t.success
       /\ error' = t.error
       /\ previewUrl' = t.previewUrl
       /\ net' = t.net
       /\ issued' = t.issued
       /\ objectUrls' = t.objectUrls
       /\ trace' = Trace(State, sts)

Init ==
    /\ isDisabled = FALSE
    /\ loading = FALSE
    /\ success = Null
    /\ error = Null
    /\ previewUrl = Null
    /\ inputFile = NoFile
    /\ csrfMeta \in CsrfMetas
    /\ productId \in ProductIds
    /\ net = {}
    /\ issued = 0
    /\ objectUrls = {}
    /\ ev = Event("mount", NoFile, 0, Null, Null, NoErr, FALSE)
    /\ trace = <<>>

\* ref.current.enabled()
Enable ==
    /\ Commit(enabled)
    /\ ev' = Event("enabled", inputFile, 0, Null, Null, NoErr, FALSE)
    /\ UNCHANGED <<inputFile, csrfMeta, productId>>

\* ref.current.disabled()
Disable ==
    /\ Commit(disabled)
    /\ ev' = Event("disabled", inputFile, 0, Null, Null, NoErr, FALSE)
    /\ UNCHANGED <<inputFile, csrfMeta, productId>>

\* the user picks a file, or empties the selection: the input fires onChange
FileChange ==
    /\ ~inputDisabled
    /\ \E file \in (Files \cup {NoFile}) \ {inputFile} :
          /\ file # NoFile => Cardinality(objectUrls) < MaxUrls
          /\ inputFile' = file
          /\ Commit(handleFileChange(State, file))
          /\ ev' = Event("handleFileChange", file, 0, Null, Null, NoErr, FALSE)
    /\ UNCHANGED <<csrfMeta, productId>>

\* the user clicks the button: handleUpload runs up to its first await
Upload ==
    /\ ~buttonDisabled
    /\ inputFile # NoFile => issued < MaxRequests
    /\ Commit(handleUploadStart(State, inputFile, productId, csrfMeta))
    /\ ev' = Event("handleUpload", inputFile, 0, Null, Null, NoErr, FALSE)
    /\ UNCHANGED <<inputFile, csrfMeta, productId>>

\* the fetch promise resolves with a response
FetchResolved ==
    \E r \in net, status \in Statuses, statusText \in StatusTexts :
        /\ r.stage = "fetch"
        /\ LET b == handleUploadResolved(r.id, status, statusText)
           IN /\ Commit(b.sts)
              /\ ev' = Event("resolved", r.file, status, statusText, Null, NoErr, b.escaped)
        /\ UNCHANGED <<inputFile, csrfMeta, productId>>

\* the fetch promise rejects
FetchRejected ==
    \E r \in net, err \in Thrown :
        /\ r.stage = "fetch"
        /\ LET b == handleUploadRejected(r.id, err)
           IN /\ Commit(b.sts)
              /\ ev' = Event("rejected", r.file, 0, Null, Null, err, b.escaped)
        /\ UNCHANGED <<inputFile, csrfMeta, productId>>

\* res.text() settles for a response that was not ok
TextSettled ==
    \E r \in net, readable \in BOOLEAN, body \in Bodies :
        /\ r.stage = "text"
        /\ LET text == textOrNull(readable, body)
               b == handleUploadText(r.id, text, r.statusText)
           IN /\ Commit(b.sts)
              /\ ev' = Event("text", r.file, 0, r.statusText, text, NoErr, b.escaped)
        /\ UNCHANGED <<inputFile, csrfMeta, productId>>

Next ==
    \/ Enable
    \/ Disable
    \/ FileChange
    \/ Upload
    \/ FetchResolved
    \/ FetchRejected
    \/ TextSettled

Spec == Init /\ [][Next]_vars

\* every issued request is answered, and every body read settles
FairSpec == Spec /\ WF_vars(FetchResolved \/ FetchRejected) /\ WF_vars(TextSettled)

----------------------------------------------------------------------------
(* Properties *)

UploadOps == {"handleUpload", "resolved", "rejected", "text"}
SettleOps == {"resolved", "rejected", "text"}

\* C1: a submit with no file selected issues no request, sets the error to the
\* validation message, leaves success empty, and loading is false in every
\* state the submit goes through and in the state it ends in.
C1_NoFileSubmit ==
    (ev.op = "handleUpload" /\ ev.file = NoFile) =>
        /\ error = MsgNoFile
        /\ success = Null
        /\ ~loading
        /\ \A i \in DOMAIN trace :
              /\ ~trace[i].loading
              /\ trace[i].issued = trace[1].issued
              /\ trace[i].net = trace[1].net
        /\ issued = trace[1].issued

C1_Witness ==
    /\ ev.op = "handleUpload"
    /\ ev.file = NoFile
    /\ error = MsgNoFile
    /\ issued > 0

\* C2: a submit with a file sets loading before it issues the request; loading
\* rises exactly in the steps that issue a request and falls exactly in the
\* steps in which a request's handler finishes (success, server error or
\* thrown error alike), so once per submit; and with every response arriving,
\* loading always becomes false again.
C2_SetBeforeFetch ==
    \A i \in DOMAIN trace :
        (i > 1 /\ trace[i].issued # trace[i - 1].issued) => trace[i - 1].loading

C2_OneFallPerSubmit ==
    /\ (~loading /\ loading') <=> (issued' = issued + 1)
    /\ (loading /\ ~loading') <=> (Cardinality(net') < Cardinality(net))
    /\ Cardinality(net') < Cardinality(net) => (ev'.op \in SettleOps /\ net' = {})
    /\ issued' # issued => ev'.op = "handleUpload" /\ ev'.file # NoFile

C2_LoadingCycle ==
    /\ [](ev.op = "handleUpload" /\ ev.file # NoFile => loading /\ C2_SetBeforeFetch)
    /\ [][C2_OneFallPerSubmit]_vars
    /\ (loading ~> ~loading)

C2_Witness ==
    /\ ev.op = "rejected"
    /\ ~loading
    /\ issued = 2

\* C3: success and error are never both set, in any state and between any two
\* statements of a handler, and a submit has cleared both when it sets loading.
C3_OneMessage ==
    /\ ~(success # Null /\ error # Null)
    /\ \A i \in DOMAIN trace : ~(trace[i].success # Null /\ trace[i].error # Null)
    /\ ev.op = "handleUpload" =>
          \A i \in DOMAIN trace :
              (i > 1 /\ trace[i].loading /\ ~trace[i - 1].loading) =>
                  (trace[i - 1].success = Null /\ trace[i - 1].error = Null)

C3_Witness ==
    /\ ev.op = "handleUpload"
    /\ loading
    /\ trace[1].success # Null

\* C4: at most one request is in flight; while one is in flight loading is
\* true and no step issues another, whatever enabled()/disabled() calls occur.
C4_SingleFlight ==
    /\ [](Cardinality(net) <= 1 /\ (net # {} <=> loading))
    /\ [][(net # {} \/ loading) => issued' = issued]_vars

C4_Witness ==
    /\ ev.op = "enabled"
    /\ net # {}
    /\ ~isDisabled
    /\ issued = 2

\* C5 as stated: while the disabled flag is true no step of the change handler
\* or of the submit handler changes loading, success, error, preview or
\* selection, a submit already in flight included.
C5_Original ==
    [][(isDisabled /\ ev'.op \in (UploadOps \cup {"handleFileChange"})) =>
          UNCHANGED <<loading, success, error, previewUrl, inputFile>>]_vars

\* C5 amended: while the disabled flag is true no change event and no submit
\* is handled, so preview and selection stay and no request is issued;
\* loading, success and error change only when a request issued before the
\* disabled() call completes.
C5_DisabledInert ==
    [][isDisabled =>
          /\ ev'.op \notin {"handleFileChange", "handleUpload"}
          /\ UNCHANGED <<previewUrl, inputFile, issued>>
          /\ (<<loading, success, error>>' # <<loading, success, error>>) =>
                (ev'.op \in SettleOps /\ loading /\ net # {})]_vars

C5_Witness ==
    /\ isDisabled
    /\ ev.op \in SettleOps
    /\ ~loading
    /\ success # Null

\* C6: the preview is set exactly when the input holds a file, it is never the
\* empty string, and only the change handler's step changes either of them.
C6_PreviewIffFile ==
    /\ []((previewUrl # Null) <=> (inputFile # NoFile))
    /\ [](previewUrl # "")
    /\ [][(ev'.op # "handleFileChange") => UNCHANGED <<previewUrl, inputFile>>]_vars
    /\ [][(inputFile' # inputFile /\ inputFile' # NoFile) =>
             (previewUrl' \notin {Null, "", previewUrl})]_vars

C6_Witness ==
    /\ ev.op = "handleFileChange"
    /\ ev.file = NoFile
    /\ previewUrl = Null
    /\ objectUrls # {}

\* C7: after a response with a 2xx status is processed, success is the fixed
\* message, error is null and loading is false.
C7_SuccessOn2xx ==
    (ev.op = "resolved" /\ ev.status >= 200 /\ ev.status <= 299) =>
        /\ success = MsgSuccess
        /\ error = Null
        /\ ~loading

C7_Witness ==
    /\ ev.op = "resolved"
    /\ ev.status = 201
    /\ success = MsgSuccess
    /\ trace[1].loading

\* C8: for a response that is not 2xx the error is the body text when readable
\* and non-empty, else the status text when non-empty, else the generic
\* message, and success stays null.
C8_ServerError ==
    /\ (ev.op = "resolved" /\ ~(ev.status >= 200 /\ ev.status <= 299)) => success = Null
    /\ ev.op = "text" =>
          /\ success = Null
          /\ error = (IF ev.text \notin {Null, ""} THEN ev.text
                      ELSE IF ev.statusText # "" THEN ev.statusText
                      ELSE MsgServer)
          /\ (ev.text = "bad image" => error = "bad image")
          /\ (ev.text = "" /\ ev.statusText = "Forbidden" => error = "Forbidden")

C8_Witness ==
    /\ ev.op = "text"
    /\ ev.text = ""
    /\ ev.statusText = "Forbidden"
    /\ error = "Forbidden"

\* C9: a submit that fails (no file, rejected request, or response that is not
\* 2xx) ends with a non-empty error, success null and loading false, and no
\* exception leaves handleUpload; for a rejected request the error is the
\* thrown message when non-empty, else the generic message.
C9_FailureEndsInError ==
    /\ ev.op \in UploadOps => ~ev.escaped
    /\ ((ev.op = "handleUpload" /\ ev.file = NoFile) \/ ev.op \in {"rejected", "text"}) =>
          /\ error \notin {Null, ""}
          /\ success = Null
          /\ ~loading
    /\ ev.op = "rejected" =>
          error = (IF ev.err.defined /\ ev.err.message \notin {Null, ""}
                   THEN ev.err.message ELSE MsgSend)

C9_Witness ==
    /\ ev.op = "rejected"
    /\ ~ev.err.defined
    /\ error = MsgSend

\* C10: enabled(); disabled(); enabled() run from any state ends with the
\* disabled flag false and everything else as it was, and a single enabled()
\* or disabled() call changes nothing but the flag.
C10_Sequence ==
    Run(State, enabled \o disabled \o enabled) = [State EXCEPT !.isDisabled = FALSE]

C10_EnableDisableFrame ==
    /\ []C10_Sequence
    /\ [](Run(State, disabled).isDisabled /\ ~Run(State, enabled).isDisabled)
    /\ [][ev'.op \in {"enabled", "disabled"} =>
             UNCHANGED <<loading, success, error, previewUrl, inputFile, net,
                         issued, objectUrls, csrfMeta, productId>>]_vars

C10_Witness ==
    /\ ev.op = "enabled"
    /\ ~isDisabled
    /\ error # Null
    /\ previewUrl # Null

\* C11: while loading is true the selection and the preview do not change and
\* no submit starts, whether or not enabled() has been called; the change
\* handler and the submit handler run only from states in which loading and
\* the disabled flag are both false.
C11_LockedWhileLoading ==
    /\ [][loading => /\ UNCHANGED <<inputFile, previewUrl, issued>>
                     /\ ev'.op \notin {"handleFileChange", "handleUpload"}]_vars
    /\ [][ev'.op \in {"handleFileChange", "handleUpload"} => (~loading /\ ~isDisabled)]_vars
    /\ [][(loading /\ ev'.op = "enabled") => (loading' /\ inputDisabled' /\ buttonDisabled')]_vars

C11_Witness ==
    /\ ev.op = "enabled"
    /\ loading
    /\ ~isDisabled
    /\ trace[1].isDisabled

\* C12: after every file-selection change, whether it selects a file or clears
\* the selection, success and error are both null.
C12_ChangeClearsMessages ==
    ev.op = "handleFileChange" => (success = Null /\ error = Null)

C12_Witness ==
    /\ ev.op = "handleFileChange"
    /\ trace[1].error # Null
    /\ error = Null

\* C13: an error that is shown changes only in a step of the submit handler's
\* start or of the change handler; enabled(), disabled() and the completion of
\* a request leave it as it is.
C13_ErrorPersists ==
    [][(error # Null /\ error' # error) => ev'.op \in {"handleUpload", "handleFileChange"}]_vars

C13_Witness ==
    /\ ev.op = "disabled"
    /\ error # Null
    /\ trace[1].error = error

\* C14: the disabled flag is false after mount and changes only in a step of
\* enabled() or disabled().
C14_FlagOnlyByHandle ==
    /\ isDisabled = FALSE
    /\ [][isDisabled' # isDisabled => ev'.op \in {"enabled", "disabled"}]_vars
    /\ [][ev'.op \notin {"enabled", "disabled"} =>
             \A i \in DOMAIN trace' : trace'[i].isDisabled = isDisabled]_vars

C14_Witness ==
    /\ isDisabled
    /\ ev.op = "rejected"
    /\ trace[1].loading

\* C15: a submit with a file selected issues exactly one request: a POST to
\* /api/products/{id}/image for the widget's id, with the selected file in the
\* field image, and with the page's token as header, the empty string when the
\* page has none.
ExpectedUrl == IF productId = 42 THEN "/api/products/42/image" ELSE "/api/products/7/image"

ExpectedToken == IF csrfMeta \in {NoMeta, ""} THEN "" ELSE csrfMeta

C15_OnePost ==
    (ev.op = "handleUpload" /\ ev.file # NoFile) =>
        /\ issued = trace[1].issued + 1
        /\ Cardinality(net) = Cardinality(trace[1].net) + 1
        /\ \A r \in net \ trace[1].net :
              /\ r.id = issued
              /\ r.method = "POST"
              /\ r.url = ExpectedUrl
              /\ r.field = "image"
              /\ r.file = inputFile
              /\ r.file \in Files
              /\ r.csrf = ExpectedToken

C15_Witness ==
    /\ ev.op = "handleUpload"
    /\ ev.file = "photo.png"
    /\ csrfMeta = NoMeta
    /\ productId = 7
    /\ \E r \in net : r.csrf = "" /\ r.url = "/api/products/7/image"

\* C16: a second enabled() after an enabled(), or a second disabled() after a
\* disabled(), changes nothing: the call sets the flag to its value whatever
\* the flag was, and from a state where the flag has that value the call
\* leaves the whole state as it is.
C16_Twice ==
    /\ Run(Run(State, enabled), enabled) = Run(State, enabled)
    /\ Run(Run(State, disabled), disabled) = Run(State, disabled)

C16_Idempotent ==
    /\ []C16_Twice
    /\ [][ev'.op = "enabled" => ~isDisabled']_vars
    /\ [][ev'.op = "disabled" => isDisabled']_vars
    /\ [][((ev'.op = "enabled" /\ ~isDisabled) \/ (ev'.op = "disabled" /\ isDisabled)) =>
             UNCHANGED <<isDisabled, loading, success, error, previewUrl, inputFile,
                         net, issued, objectUrls, csrfMeta, productId>>]_vars

C16_Witness ==
    /\ ev.op = "enabled"
    /\ ~trace[1].isDisabled
    /\ ~isDisabled
    /\ loading

\* C17: the lifecycle is one of idle, loading, success, error: at most one of
\* "loading is true", "success is set", "error is set" holds, so while loading
\* is true both messages are null.
C17_Lifecycle ==
    /\ loading => (success = Null /\ error = Null)
    /\ success # Null => (~loading /\ error = Null)
    /\ error # Null => (~loading /\ success = Null)

C17_Witness ==
    /\ ev.op = "handleUpload"
    /\ loading
    /\ trace[1].error # Null
    /\ error = Null

\* C18 as stated: the result of a request is applied even when the user has
\* changed the selection after the request was started; that is, while a
\* request is in flight and the widget is not disabled from outside, the user
\* can change the selection.
C18_Original ==
    (net # {} /\ ~isDisabled) => ENABLED FileChange

\* C18 amended: a request in flight is never cancelled: it leaves the widget
\* only in the step that applies its result (success or error set, loading
\* cleared); the selection cannot change while it is in flight, so the result
\* is always applied while the file that was sent is still the selection.
C18_ResultApplied ==
    /\ [](ev.op \in SettleOps => (ev.file = inputFile /\ ev.file # NoFile))
    /\ [](\A r \in net : r.file = inputFile)
    /\ [][net # {} => inputFile' = inputFile]_vars
    /\ [][Cardinality(net') < Cardinality(net) =>
             /\ ev'.op \in SettleOps
             /\ ~loading'
             /\ (success' # Null \/ error' # Null)]_vars

C18_Witness ==
    /\ ev.op = "text"
    /\ ev.file = inputFile
    /\ error = "bad image"
    /\ ~isDisabled
    /\ ~loading

\* C19: at most one object URL created for the preview is unreleased at any
\* time: the one of a superseded or cleared preview has been released.
C19_AtMostOneUnreleased ==
    /\ Cardinality(objectUrls) <= 1
    /\ objectUrls \subseteq {previewUrl}

\* C20: loading is true exactly when one request has been issued and its
\* handler has not finished (response pending, or error body being read), and
\* false exactly when none is outstanding; the outstanding request is the one
\* issued last.
C20_LoadingIffOutstanding ==
    /\ loading <=> (Cardinality(net) = 1)
    /\ ~loading <=> (net = {})
    /\ \A r \in net : r.id = issued /\ r.stage \in {"fetch", "text"}
    /\ (ev.op = "resolved" /\ ~(ev.status >= 200 /\ ev.status <= 299)) =>
          (loading /\ \E r \in net : r.stage = "text")

C20_Witness ==
    /\ ev.op = "resolved"
    /\ ev.status = 403
    /\ loading
    /\ \E r \in net : r.stage = "text" /\ r.id = 2

====
